---------------------------- MODULE Spec2Model ----------------------------
(***************************************************************************)
(* Route generation of vue-auto-router (src/router/index.js).              *)
(*                                                                         *)
(* generateRoutes() walks the page files found by import.meta.glob, reads  *)
(* each page's <route> block and (for index.vue pages) the route.json of   *)
(* its directory, merges the metadata, and assembles a two-level route     *)
(* list; a default "/" redirect is appended when no page produced "/".     *)
(*                                                                         *)
(* JavaScript strings are TLA+ strings, taken apart character by character *)
(* with Len, Head, Tail, SubSeq and \o, so that replace, split, join,      *)
(* startsWith and the slash clean-up are computed as the code computes     *)
(* them.  JavaScript's undefined is the string "undefined", true and false *)
(* are "true" and "false".  Objects are records: a key the object lacks is *)
(* absent from the record's DOMAIN.                                        *)
(***************************************************************************)
EXTENDS Integers, Sequences, FiniteSets, TLC

VARIABLES
    configFiles,  \* import.meta.glob('../views/**/route.json'): path -> file
    log,          \* pages handled so far, in discovery order, with what
                  \* each page's raw loader delivered
    routes,       \* the accumulator `routes` of generateRoutes
    pc            \* "loop": inside the for loop; "done": routes returned

vars == <<configFiles, log, routes, pc>>

(***************************************************************************)
(* Bounds of the model.                                                    *)
(***************************************************************************)
\* Pages in one generation pass.
MaxPages == 2

(***************************************************************************)
(* JavaScript string primitives.                                           *)
(***************************************************************************)
Undefined == "undefined"

\* s.startsWith(pat)
StartsWith(s, pat) ==
    Len(s) >= Len(pat) /\ SubSeq(s, 1, Len(pat)) = pat

\* s.endsWith(pat)
EndsWith(s, pat) ==
    Len(s) >= Len(pat) /\ SubSeq(s, Len(s) - Len(pat) + 1, Len(s)) = pat

\* s.indexOf(pat), 1-based; 0 when pat does not occur
IndexOf(s, pat) ==
    LET hits == {i \in 1..(Len(s) - Len(pat) + 1) :
                    SubSeq(s, i, i + Len(pat) - 1) = pat}
    IN  IF hits = {} THEN 0 ELSE CHOOSE i \in hits : \A j \in hits : i <= j

\* s.replace(pat, rep) with a string pattern: the first occurrence only
ReplaceFirst(s, pat, rep) ==
    LET i == IndexOf(s, pat)
    IN  IF i = 0 THEN s
        ELSE SubSeq(s, 1, i - 1) \o rep \o SubSeq(s, i + Len(pat), Len(s))

\* s.replace(/pat$/, rep): the pattern anchored at the end of the string
ReplaceSuffix(s, pat, rep) ==
    IF EndsWith(s, pat) THEN SubSeq(s, 1, Len(s) - Len(pat)) \o rep ELSE s

\* s.replace(/pat/g, rep): every occurrence, left to right, not overlapping
RECURSIVE ReplaceAll(_, _, _)
ReplaceAll(s, pat, rep) ==
    IF Len(s) < Len(pat) THEN s
    ELSE IF SubSeq(s, 1, Len(pat)) = pat
         THEN rep \o ReplaceAll(SubSeq(s, Len(pat) + 1, Len(s)), pat, rep)
         ELSE Head(s) \o ReplaceAll(Tail(s), pat, rep)

\* s.split(sep) for a one-character separator: the pieces, empty ones kept
RECURSIVE SplitFrom(_, _, _)
SplitFrom(s, sep, cur) ==
    IF s = "" THEN <<cur>>
    ELSE IF Head(s) = sep
         THEN <<cur>> \o SplitFrom(Tail(s), sep, "")
         ELSE SplitFrom(Tail(s), sep, cur \o Head(s))

Split(s, sep) == SplitFrom(s, sep, "")

\* list.filter(Boolean) on a list of strings: the empty strings are dropped
RECURSIVE FilterBoolean(_)
FilterBoolean(list) ==
    IF list = <<>> THEN <<>>
    ELSE IF Head(list) = ""
         THEN FilterBoolean(Tail(list))
         ELSE <<Head(list)>> \o FilterBoolean(Tail(list))

\* list.join(sep)
RECURSIVE Join(_, _)
Join(list, sep) ==
    IF list = <<>> THEN ""
    ELSE IF Len(list) = 1 THEN Head(list)
         ELSE Head(list) \o sep \o Join(Tail(list), sep)

\* list.includes(x)
Includes(list, x) == \E i \in 1..Len(list) : list[i] = x

(***************************************************************************)
(* String literals of the source.                                          *)
(***************************************************************************)
Slash      == "/"
ViewsDir   == "../views"
DotVue     == ".vue"
IndexName  == "index"
AdminName  == "admin"
AuthPrefix == "Auth"
IndexVue   == "/index.vue"
RouteJson  == "/route.json"
HomePath   == "/home"

(***************************************************************************)
(* The inputs of a pass: what the glob facility and the loaders deliver.   *)
(***************************************************************************)
\* The page files a pass may discover: keys of
\* import.meta.glob('../views/**/*.vue').
PageFiles ==
    { "../views/index.vue",
      "../views/index/index.vue",
      "../views/admin/index.vue",
      "../views/admin/users.vue",
      "../views/admin/AuthLogin.vue",
      "../views/admin/users/[id].vue" }

\* What rawPages[pagePath]() delivers, and what the SFC parser and
\* JSON.parse make of it:
\*   "rejects"   the loader's promise rejects
\*   "empty"     the loader resolves to an empty (falsy) content
\*   "plain"     a component without a <route> block
\*   "sfcError"  a content on which parse() throws
\*   "badJson"   a <route> block whose content is not JSON
\*   "blockA", "blockB"  a <route> block whose content is a JSON object
RawKinds ==
    {"rejects", "empty", "plain", "sfcError", "badJson", "blockA", "blockB"}

EmptyObject == [k \in {} |-> Undefined]

\* The configuration objects of the <route> blocks.
BlockA == [meta |-> [requiresAuth |-> "true"]]
BlockB ==
    [meta  |-> [layout |-> "DefaultLayout", title |-> "E"],
     name  |-> "eName",
     props |-> "true"]

\* The configuration object of a well-formed route.json.
SiblingConfig ==
    [meta     |-> [layout |-> "Custom", title |-> "S"],
     name     |-> "sName",
     redirect |-> "/s"]

\* A module of that glob: importing it succeeds and gives `default`, or
\* fails (a route.json that is not JSON).
GoodModule(obj) == [ok |-> TRUE, default |-> obj]
BadModule       == [ok |-> FALSE]

\* The route.json files a pass may find: the possible values of
\* import.meta.glob('../views/**/route.json').
ConfigFileSets ==
    { EmptyObject,
      [f \in {"../views/admin/route.json"} |-> GoodModule(SiblingConfig)],
      [f \in {"../views/admin/route.json"} |-> BadModule] }

\* The layout files of import.meta.glob('../layouts/*.vue', {eager: true}).
LayoutNames == {"AdminLayout", "DefaultLayout"}

\* layoutComponents[name]: the layout's component, undefined when no
\* layout file has that name.
layoutComponents(name) ==
    IF name \in LayoutNames
    THEN [kind |-> "layout", layout |-> name]
    ELSE [kind |-> "undefined"]

(***************************************************************************)
(* JavaScript object access.                                               *)
(***************************************************************************)
\* obj.key: undefined when the object lacks the key
Get(obj, key) == IF key \in DOMAIN obj THEN obj[key] ELSE Undefined

\* obj.meta as the operand of a spread: spreading undefined adds nothing
MetaOf(obj) == IF "meta" \in DOMAIN obj THEN obj.meta ELSE EmptyObject

\* { ...a, ...b }: b's keys overwrite a's
Spread(a, b) ==
    [k \in DOMAIN a \cup DOMAIN b |-> IF k \in DOMAIN b THEN b[k] ELSE a[k]]

Falsy(v) == v \in {Undefined, "", "false"}

\* a || b
JsOr(a, b) == IF Falsy(a) THEN b ELSE a

JsBool(b) == IF b THEN "true" ELSE "false"

(***************************************************************************)
(* Outcomes of code that may throw.                                        *)
(***************************************************************************)
Returned(v) == [threw |-> FALSE, value |-> v]
Thrown      == [threw |-> TRUE]

(***************************************************************************)
(* parseRouteBlock(rawContent)                                             *)
(***************************************************************************)
\* The body of parseRouteBlock's try.
parseRouteBlockTry(raw) ==
    CASE raw = "empty"    -> Returned(EmptyObject)     \* if (!rawContent)
      [] raw = "sfcError" -> Thrown                    \* parse(...)
      [] raw = "plain"    -> Returned(EmptyObject)     \* no route block
      [] raw = "badJson"  -> Thrown                    \* JSON.parse(...)
      [] raw = "blockA"   -> Returned(BlockA)
      [] raw = "blockB"   -> Returned(BlockB)

\* Mutant: parseRouteBlock without its catch.
parseRouteBlockNoCatch(raw) == parseRouteBlockTry(raw)

\* parseRouteBlock: what the try returns, and {} from the catch.
parseRouteBlock(raw) ==
    LET r == parseRouteBlockTry(raw)
    IN  IF r.threw THEN Returned(EmptyObject) ELSE r

(***************************************************************************)
(* Path normalisation.                                                     *)
(***************************************************************************)
normalizedPath(pagePath) ==
    ReplaceSuffix(
        ReplaceFirst(ReplaceFirst(pagePath, ViewsDir, ""), DotVue, ""),
        Slash \o IndexName, Slash)

\* normalizedPath.split('/').filter(Boolean), before the pop
splitPath(pagePath) == FilterBoolean(Split(normalizedPath(pagePath), "/"))

\* segments.pop() || 'index'
fileName(pagePath) ==
    LET s == splitPath(pagePath)
    IN  IF s = <<>> THEN IndexName ELSE s[Len(s)]

\* `segments` after the pop
segments(pagePath) ==
    LET s == splitPath(pagePath)
    IN  IF s = <<>> THEN <<>> ELSE SubSeq(s, 1, Len(s) - 1)

generateNestedPath(segs, fname) ==
    LET path ==
            IF StartsWith(fname, "[") /\ EndsWith(fname, "]")
            THEN ":" \o SubSeq(fname, 2, Len(fname) - 1)
            ELSE IF fname = IndexName
                 THEN (IF Len(segs) = 0 THEN Slash ELSE "")
                 ELSE fname
        joined == Slash \o Join(segs, Slash) \o Slash \o path
    IN  ReplaceSuffix(ReplaceAll(joined, "//", Slash), Slash, "")

\* Normalisation depends on the page key alone: it is tabulated over the
\* page keys of the pass.
Normalized ==
    [pagePath \in PageFiles |->
        [segments |-> segments(pagePath),
         fileName |-> fileName(pagePath),
         path     |-> generateNestedPath(segments(pagePath),
                                         fileName(pagePath))]]

(***************************************************************************)
(* The route.json of an index page.                                        *)
(***************************************************************************)
isIndexFile(pagePath) == EndsWith(pagePath, IndexVue)

\* Only read when isIndexFile: the code's configPath is null otherwise.
configPath(pagePath) == ReplaceSuffix(pagePath, IndexVue, RouteJson)

\* Mutant: the route.json of the directory is read for every page.
jsonConfigEveryPage(pagePath, files) ==
    LET slash == CHOOSE i \in 1..Len(pagePath) :
                    /\ SubSeq(pagePath, i, i) = Slash
                    /\ \A j \in (i + 1)..Len(pagePath) :
                          SubSeq(pagePath, j, j) # Slash
        path  == SubSeq(pagePath, 1, slash - 1) \o RouteJson
    IN  IF path \in DOMAIN files
        THEN IF files[path].ok THEN Returned(files[path].default) ELSE Thrown
        ELSE Returned(EmptyObject)

\* jsonConfig: {} unless the glob holds the page's configPath; then the
\* module's default export, whose import may fail.
jsonConfig(pagePath, files) ==
    IF isIndexFile(pagePath) /\ configPath(pagePath) \in DOMAIN files
    THEN LET module == files[configPath(pagePath)]
         IN  IF module.ok THEN Returned(module.default) ELSE Thrown
    ELSE Returned(EmptyObject)

(***************************************************************************)
(* Metadata merge and the page's route object.                             *)
(***************************************************************************)
defaultMeta(segs, fname) ==
    [requiresAuth |-> JsBool(StartsWith(fname, AuthPrefix)),
     layout |-> IF Includes(segs, AdminName)
                THEN "AdminLayout" ELSE "DefaultLayout"]

\* Mutant: the two spreads in the other order.
mergedMetaBlockFirst(segs, fname, json, block) ==
    Spread(Spread(defaultMeta(segs, fname), MetaOf(block)), MetaOf(json))

mergedMeta(segs, fname, json, block) ==
    Spread(Spread(defaultMeta(segs, fname), MetaOf(json)), MetaOf(block))

pageRoute(pagePath, json, block) ==
    LET segs  == Normalized[pagePath].segments
        fname == Normalized[pagePath].fileName
    IN  [path      |-> Normalized[pagePath].path,
         component |-> [kind |-> "page", page |-> pagePath],
         redirect  |-> JsOr(Get(json, "redirect"), Get(block, "redirect")),
         meta      |-> mergedMeta(segs, fname, json, block),
         name      |-> JsOr(Get(json, "name"), Get(block, "name")),
         props     |-> JsOr(Get(json, "props"), Get(block, "props")),
         children  |-> <<>>]

(***************************************************************************)
(* Tree assembly.                                                          *)
(***************************************************************************)
\* routes.find((r) => r.path === path): the index of the first top-level
\* node at `path`, 0 when there is none
findRoute(rs, path) ==
    LET hits == {i \in 1..Len(rs) : rs[i].path = path}
    IN  IF hits = {} THEN 0 ELSE CHOOSE i \in hits : \A j \in hits : i <= j

\* Mutant: every child sets the parent's component to its own layout.
addRouteLastLayout(rs, route, segs) ==
    IF Len(segs) > 0
    THEN LET parentPath  == Slash \o Join(segs, Slash)
             found       == findRoute(rs, parentPath)
             parentRoute == [path      |-> parentPath,
                             component |-> layoutComponents(route.meta.layout),
                             children  |-> <<>>]
             withParent  == IF found = 0 THEN Append(rs, parentRoute) ELSE rs
             at          == IF found = 0 THEN Len(withParent) ELSE found
         IN  [withParent EXCEPT
                 ![at].children  = Append(@, route),
                 ![at].component = layoutComponents(route.meta.layout)]
    ELSE Append(rs, route)

\* Mutant: the parent is looked up among the children too.
addRouteNested(rs, route, segs) ==
    IF Len(segs) > 0
    THEN LET parentPath  == Slash \o Join(segs, Slash)
             found       == findRoute(rs, parentPath)
             inner       == UNION {{<<i, k>> : k \in {k \in 1..Len(rs[i].children) :
                                        rs[i].children[k].path = parentPath}} :
                                    i \in 1..Len(rs)}
             parentRoute == [path      |-> parentPath,
                             component |-> layoutComponents(route.meta.layout),
                             children  |-> <<>>]
             withParent  == IF found = 0 THEN Append(rs, parentRoute) ELSE rs
             at          == IF found = 0 THEN Len(withParent) ELSE found
         IN  IF found = 0 /\ inner # {}
             THEN LET ik == CHOOSE ik \in inner : TRUE
                  IN  [rs EXCEPT ![ik[1]].children[ik[2]].children =
                                     Append(@, route)]
             ELSE [withParent EXCEPT ![at].children = Append(@, route)]
    ELSE Append(rs, route)

\* The nested-route branch: the page's route goes under the top-level node
\* at parentPath, which is created with the page's layout when missing, or
\* to the top level when the page has no segments.
addRoute(rs, route, segs) ==
    IF Len(segs) > 0
    THEN LET parentPath  == Slash \o Join(segs, Slash)
             found       == findRoute(rs, parentPath)
             parentRoute == [path      |-> parentPath,
                             component |-> layoutComponents(route.meta.layout),
                             children  |-> <<>>]
             withParent  == IF found = 0 THEN Append(rs, parentRoute) ELSE rs
             at          == IF found = 0 THEN Len(withParent) ELSE found
         IN  [withParent EXCEPT ![at].children = Append(@, route)]
    ELSE Append(rs, route)

(***************************************************************************)
(* One iteration of the for loop of generateRoutes.                        *)
(***************************************************************************)
\* The body of the try: the routes it leaves, and whether it threw.
processPageTry(rs, pagePath, raw, files) ==
    IF raw = "rejects"
    THEN [threw |-> TRUE, routes |-> rs]          \* await rawPages[pagePath]()
    ELSE
      LET block == parseRouteBlock(raw)
          json  == jsonConfig(pagePath, files)
      IN  IF block.threw \/ json.threw
          THEN [threw |-> TRUE, routes |-> rs]
          ELSE LET route == pageRoute(pagePath, json.value, block.value)
               IN  [threw  |-> FALSE,
                    routes |-> addRoute(rs, route,
                                        Normalized[pagePath].segments)]

\* Mutant: the parent is pushed before the part of the try that throws.
processPageKeepsParent(rs, pagePath, raw, files) ==
    LET try        == processPageTry(rs, pagePath, raw, files)
        segs       == Normalized[pagePath].segments
        parentPath == Slash \o Join(segs, Slash)
    IN  IF try.threw /\ Len(segs) > 0 /\ findRoute(rs, parentPath) = 0
        THEN Append(rs, [path      |-> parentPath,
                         component |-> layoutComponents("DefaultLayout"),
                         children  |-> <<>>])
        ELSE try.routes

\* try { ... } catch (error) { console.error(...) }
processPage(rs, pagePath, raw, files) ==
    processPageTry(rs, pagePath, raw, files).routes

\* The root path handling after the loop.
completeRoot(rs) ==
    IF findRoute(rs, Slash) = 0
    THEN Append(rs, [path     |-> Slash,
                     redirect |-> HomePath,
                     meta     |-> [requiresAuth |-> "false"]])
    ELSE rs

(***************************************************************************)
(* The state machine.                                                      *)
(***************************************************************************)
LoggedPages == {log[i].page : i \in 1..Len(log)}

Init ==
    /\ configFiles \in ConfigFileSets
    /\ log = <<>>
    /\ routes = <<>>
    /\ pc = "loop"

\* The loop takes the next page key and handles it.
ProcessPage(pagePath, raw) ==
    /\ pc = "loop"
    /\ Len(log) < MaxPages
    /\ pagePath \notin LoggedPages
    /\ routes' = processPage(routes, pagePath, raw, configFiles)
    /\ log' = Append(log, [page |-> pagePath, raw |-> raw])
    /\ UNCHANGED <<configFiles, pc>>

\* The loop is over: the root path is completed and routes is returned.
Return ==
    /\ pc = "loop"
    /\ routes' = completeRoot(routes)
    /\ pc' = "done"
    /\ UNCHANGED <<configFiles, log>>

Next ==
    \/ \E pagePath \in PageFiles, raw \in RawKinds : ProcessPage(pagePath, raw)
    \/ Return

Spec == Init /\ [][Next]_vars

(***************************************************************************)
(* Vocabulary of the properties: the tree, and what the inputs of a page   *)
(* were.                                                                   *)
(***************************************************************************)
ChildrenOf(node) == IF "children" \in DOMAIN node THEN node.children ELSE <<>>

IsLeaf(node) == "component" \in DOMAIN node /\ node.component.kind = "page"

\* A parent made by the assembler: a layout component, no page behind it.
IsSynthesizedParent(node) ==
    "component" \in DOMAIN node /\ node.component.kind # "page"

\* The default entry of the root completion.
IsSyntheticRoot(node) == "component" \notin DOMAIN node

\* Every node of a tree: the top-level nodes, each followed by its children.
RECURSIVE Flatten(_)
Flatten(rs) ==
    IF rs = <<>> THEN <<>>
    ELSE <<Head(rs)>> \o ChildrenOf(Head(rs)) \o Flatten(Tail(rs))

TopLevel == {routes[i] : i \in 1..Len(routes)}
Nested   == UNION {{r.children[i] : i \in 1..Len(ChildrenOf(r))} : r \in TopLevel}

\* The nodes of the tree that the page's route object became.
LeavesOf(pagePath) ==
    LET nodes == Flatten(routes)
    IN  {nodes[i] : i \in {i \in 1..Len(nodes) :
                              /\ IsLeaf(nodes[i])
                              /\ nodes[i].component.page = pagePath}}

\* The page file's path, read as a file path: its directories below the
\* views directory, whether its base name is index.vue, and the route.json
\* that sits in its directory.
FileFacts ==
    [pagePath \in PageFiles |->
        LET parts == Split(pagePath, "/")
        IN  [dirs    |-> SubSeq(parts, 3, Len(parts) - 1),
             index   |-> parts[Len(parts)] = "index.vue",
             sibling |-> Join(SubSeq(parts, 1, Len(parts) - 1)
                                 \o <<"route.json">>, "/")]]

FileDirs(pagePath)    == FileFacts[pagePath].dirs
IsIndexPage(pagePath) == FileFacts[pagePath].index
SiblingFile(pagePath) == FileFacts[pagePath].sibling

HasSibling(pagePath) == SiblingFile(pagePath) \in DOMAIN configFiles
SiblingMalformed(pagePath) ==
    HasSibling(pagePath) /\ ~configFiles[SiblingFile(pagePath)].ok
\* What the route.json of the page's directory declares: nothing when the
\* file is absent or malformed.
SiblingMapping(pagePath) ==
    IF HasSibling(pagePath) /\ configFiles[SiblingFile(pagePath)].ok
    THEN configFiles[SiblingFile(pagePath)].default
    ELSE EmptyObject

\* What the page's <route> block declares: nothing when there is no block
\* or its extraction fails.
EmbeddedMapping(raw) ==
    CASE raw = "blockA" -> BlockA
      [] raw = "blockB" -> BlockB
      [] OTHER          -> EmptyObject

BlockFailures == {"empty", "sfcError", "badJson"}

\* The meta of a mapping, empty when it declares none.
DeclaredMeta(mapping) ==
    IF "meta" \in DOMAIN mapping THEN mapping.meta ELSE EmptyObject

\* Key by key: the embedded block's value, else the sibling file's, else
\* the default.
MetaByPrecedence(defaults, sibling, embedded) ==
    [k \in DOMAIN defaults \cup DOMAIN sibling \cup DOMAIN embedded |->
        IF k \in DOMAIN embedded THEN embedded[k]
        ELSE IF k \in DOMAIN sibling THEN sibling[k]
        ELSE defaults[k]]

\* redirect, name, props: the sibling file's value if it declares one, else
\* the embedded block's, else undefined.
FieldByPrecedence(sibling, embedded, field) ==
    IF field \in DOMAIN sibling THEN sibling[field]
    ELSE IF field \in DOMAIN embedded THEN embedded[field]
    ELSE Undefined

DefaultsOf(pagePath) ==
    defaultMeta(Normalized[pagePath].segments, Normalized[pagePath].fileName)

\* The sibling file as the code consults it: only for a page whose file
\* is index.vue.
ConsultedSibling(pagePath) ==
    IF IsIndexPage(pagePath) THEN SiblingMapping(pagePath) ELSE EmptyObject

\* The page's handling throws outside the block extractor: its content
\* load rejects, or the import of its route.json fails.
EscapingThrow(entry) ==
    \/ entry.raw = "rejects"
    \/ IsIndexPage(entry.page) /\ SiblingMalformed(entry.page)

Survives(entry) == ~EscapingThrow(entry)

\* The loop run over a list of pages, from an empty accumulator.
RECURSIVE Replay(_, _)
Replay(rs, entries) ==
    IF entries = <<>> THEN rs
    ELSE Replay(processPage(rs, Head(entries).page, Head(entries).raw,
                            configFiles),
                Tail(entries))

\* What generateRoutes holds after `entries`: the accumulator inside the
\* loop, the completed list once it has returned.
Generated(entries) ==
    IF pc = "done" THEN completeRoot(Replay(<<>>, entries))
    ELSE Replay(<<>>, entries)

ParentPathOf(segs) == "/" \o Join(segs, "/")

(***************************************************************************)
(* C1. No two nodes of the tree (top-level list and children lists         *)
(* together) have the same path, whatever the pages and their order.       *)
(***************************************************************************)
C1_UniquePaths ==
    LET nodes == Flatten(routes)
    IN  \A i, j \in 1..Len(nodes) : i # j => nodes[i].path # nodes[j].path

(***************************************************************************)
(* C2. The returned list holds exactly one node at "/": when no page       *)
(* yields "/", one synthetic node {path "/", redirect, meta.requiresAuth   *)
(* false, no component, no children} is appended after the pages; when a   *)
(* page yields "/", no synthetic node is added.                            *)
(***************************************************************************)
RootNodes == {i \in 1..Len(routes) : routes[i].path = Slash}

C2_ExactlyOneRoot ==
    pc = "done" =>
        /\ Cardinality(RootNodes) = 1
        /\ IF \E n \in TopLevel : IsLeaf(n) /\ n.path = Slash
           THEN \A n \in TopLevel : ~IsSyntheticRoot(n)
           ELSE /\ routes[Len(routes)] =
                       [path |-> Slash, redirect |-> HomePath,
                        meta |-> [requiresAuth |-> "false"]]
                /\ \A i \in 1..(Len(routes) - 1) : ~IsSyntheticRoot(routes[i])

(***************************************************************************)
(* C5. views/admin/index.vue without sibling file and without embedded     *)
(* block gives path "/admin" and meta.layout "AdminLayout"; in general an  *)
(* index page without configuration has layout "AdminLayout" whenever a    *)
(* directory of its file path is "admin", the index page's own directory   *)
(* included.                                                               *)
(***************************************************************************)
C5_AdminIndexLayout ==
    \A i \in 1..Len(log) :
        LET pagePath == log[i].page
        IN  (/\ IsIndexPage(pagePath)
             /\ log[i].raw = "plain"
             /\ ~HasSibling(pagePath)
             /\ Includes(FileDirs(pagePath), AdminName))
            => /\ LeavesOf(pagePath) # {}
               /\ \A n \in LeavesOf(pagePath) : n.meta.layout = "AdminLayout"
               /\ pagePath = "../views/admin/index.vue"
                  => \A n \in LeavesOf(pagePath) : n.path = "/admin"

(***************************************************************************)
(* C9. A sibling file that exists but is malformed contributes an empty    *)
(* mapping, as an absent file does: the page still yields its node, with   *)
(* meta, redirect, name and props from the defaults and the embedded       *)
(* block alone.                                                            *)
(***************************************************************************)
C9_MalformedSiblingIsEmpty ==
    \A i \in 1..Len(log) :
        LET pagePath == log[i].page
            embedded == EmbeddedMapping(log[i].raw)
        IN  (SiblingMalformed(pagePath) /\ log[i].raw # "rejects")
            => /\ LeavesOf(pagePath) # {}
               /\ \A n \in LeavesOf(pagePath) :
                    /\ n.meta = MetaByPrecedence(DefaultsOf(pagePath), EmptyObject,
                                                 DeclaredMeta(embedded))
                    /\ \A f \in {"redirect", "name", "props"} :
                         n[f] = FieldByPrecedence(EmptyObject, embedded, f)

(***************************************************************************)
(* C3. Pages that share the same non-empty directory segments, with no     *)
(* node at the parent path before the first of them, get exactly one       *)
(* synthesized parent at that path; its children are those pages' leaves   *)
(* in discovery order and its component is the layout of the first page's  *)
(* meta.layout, whatever the layouts of the later siblings.                *)
(***************************************************************************)
\* The pages of the log that produced a node and have segments `segs`.
Group(segs) ==
    SelectSeq(log, LAMBDA e : Survives(e) /\ Normalized[e.page].segments = segs)

\* No page before the first page of the group left a node at the path.
NoNodeBefore(segs, first) ==
    \A i, j \in 1..Len(log) :
        (i < j /\ log[j] = first /\ Survives(log[i]))
        => Normalized[log[i].page].path # ParentPathOf(segs)

ExpectedLayout(entry) ==
    MetaByPrecedence(DefaultsOf(entry.page),
                     DeclaredMeta(ConsultedSibling(entry.page)),
                     DeclaredMeta(EmbeddedMapping(entry.raw))).layout

C3_FirstChildLayout ==
    \A segs \in {Normalized[pagePath].segments : pagePath \in PageFiles} :
        LET group   == Group(segs)
            parents == {i \in 1..Len(routes) :
                           /\ routes[i].path = ParentPathOf(segs)
                           /\ IsSynthesizedParent(routes[i])}
        IN  (segs # <<>> /\ group # <<>> /\ NoNodeBefore(segs, group[1])) =>
                /\ Cardinality(parents) = 1
                /\ \A n \in Nested : ~IsSynthesizedParent(n)
                /\ \A i \in parents :
                     /\ Len(routes[i].children) = Len(group)
                     /\ \A k \in 1..Len(group) :
                          /\ IsLeaf(routes[i].children[k])
                          /\ routes[i].children[k].component.page = group[k].page
                     /\ routes[i].component =
                            layoutComponents(ExpectedLayout(group[1]))

\* A synthesized parent with two children of different layouts.
C3_Witness ==
    \E i \in 1..Len(routes) :
        /\ IsSynthesizedParent(routes[i])
        /\ Len(routes[i].children) = 2
        /\ routes[i].children[1].meta.layout = "DefaultLayout"
        /\ routes[i].children[2].meta.layout = "AdminLayout"
        /\ routes[i].component = layoutComponents("DefaultLayout")

(***************************************************************************)
(* C4. As stated: every page's merged meta is the computed defaults,       *)
(* overwritten key by key by the meta of the sibling file of the page's    *)
(* directory, then key by key by the meta of the embedded block.           *)
(***************************************************************************)
C4_MetaPrecedenceEveryPage ==
    \A i \in 1..Len(log) :
        Survives(log[i]) =>
            \A n \in LeavesOf(log[i].page) :
                n.meta = MetaByPrecedence(
                             DefaultsOf(log[i].page),
                             DeclaredMeta(SiblingMapping(log[i].page)),
                             DeclaredMeta(EmbeddedMapping(log[i].raw)))

(***************************************************************************)
(* C4, amended. The merged meta of every page that yields a node is the    *)
(* computed defaults, overwritten key by key by the meta of the sibling    *)
(* file when the page is an index.vue (the sibling file of any other page  *)
(* is not read), then key by key by the meta of the embedded block.        *)
(***************************************************************************)
C4_MetaPrecedence ==
    \A i \in 1..Len(log) :
        Survives(log[i]) =>
            /\ LeavesOf(log[i].page) # {}
            /\ \A n \in LeavesOf(log[i].page) :
                 n.meta = MetaByPrecedence(
                              DefaultsOf(log[i].page),
                              DeclaredMeta(ConsultedSibling(log[i].page)),
                              DeclaredMeta(EmbeddedMapping(log[i].raw)))

\* The example of the specification: defaults {false, DefaultLayout},
\* sibling {layout: Custom}, embedded {requiresAuth: true}.
C4_Witness ==
    \E i \in 1..Len(log) :
        /\ log[i].raw = "blockA"
        /\ IsIndexPage(log[i].page)
        /\ DeclaredMeta(SiblingMapping(log[i].page)) # EmptyObject
        /\ DefaultsOf(log[i].page) =
               [requiresAuth |-> "false", layout |-> "DefaultLayout"]
        /\ \E n \in LeavesOf(log[i].page) :
               n.meta.requiresAuth = "true" /\ n.meta.layout = "Custom"

(***************************************************************************)
(* C6. As stated: for every page, whatever its leaf name, a sibling file   *)
(* in the page's directory contributes its meta, redirect, name and props  *)
(* to the page's route, and so does an embedded block; the absence of      *)
(* either leaves the other's contribution intact and is no error.          *)
(***************************************************************************)
Contributes(node, sibling, embedded) ==
    /\ \A f \in {"redirect", "name", "props"} :
         node[f] = FieldByPrecedence(sibling, embedded, f)
    /\ \A k \in DOMAIN DeclaredMeta(embedded) :
         k \in DOMAIN node.meta /\ node.meta[k] = DeclaredMeta(embedded)[k]
    /\ \A k \in DOMAIN DeclaredMeta(sibling) \ DOMAIN DeclaredMeta(embedded) :
         k \in DOMAIN node.meta /\ node.meta[k] = DeclaredMeta(sibling)[k]

C6_BothSourcesEveryPage ==
    \A i \in 1..Len(log) :
        Survives(log[i]) =>
            /\ LeavesOf(log[i].page) # {}
            /\ \A n \in LeavesOf(log[i].page) :
                 Contributes(n, SiblingMapping(log[i].page),
                             EmbeddedMapping(log[i].raw))

(***************************************************************************)
(* C6, amended. The embedded block is extracted for every page; the        *)
(* sibling file is looked up only for a page whose file is index.vue.  For *)
(* such a page an existing sibling file contributes its meta, redirect,    *)
(* name and props; for any other page the sibling file of its directory    *)
(* contributes nothing.  The absence of either source leaves the other's   *)
(* contribution intact and is no error: the page yields its node.          *)
(***************************************************************************)
C6_BothSources ==
    \A i \in 1..Len(log) :
        Survives(log[i]) =>
            /\ LeavesOf(log[i].page) # {}
            /\ \A n \in LeavesOf(log[i].page) :
                 /\ Contributes(n, ConsultedSibling(log[i].page),
                                EmbeddedMapping(log[i].raw))
                 /\ ~IsIndexPage(log[i].page) =>
                      DOMAIN n.meta =
                          DOMAIN DefaultsOf(log[i].page) \cup
                          DOMAIN DeclaredMeta(EmbeddedMapping(log[i].raw))

\* An index page that took its name from the sibling file, beside a page
\* of the same directory that did not.
C6_Witness ==
    /\ \E n \in LeavesOf("../views/admin/index.vue") : n.name = "sName"
    /\ \E n \in LeavesOf("../views/admin/users.vue") :
           n.name = "eName" /\ n.redirect = Undefined
    /\ HasSibling("../views/admin/users.vue")

(***************************************************************************)
(* C7. As stated: a page whose handling throws during its content load,    *)
(* its block parse or its config parse is skipped entirely.                *)
(***************************************************************************)
C7_AnyThrowSkipsPage ==
    \A i \in 1..Len(log) :
        (\/ log[i].raw = "rejects"
         \/ log[i].raw \in {"sfcError", "badJson"}
         \/ IsIndexPage(log[i].page) /\ SiblingMalformed(log[i].page))
        => LeavesOf(log[i].page) = {}

(***************************************************************************)
(* C7, amended. A page whose handling throws during its content load or    *)
(* its config load is skipped entirely: it leaves no leaf and no parent,   *)
(* the other pages are handled in discovery order, and the result is the   *)
(* one of the same pass without the failing pages.  A throw during the     *)
(* block parse is caught inside parseRouteBlock: that page is not skipped. *)
(***************************************************************************)
C7_EscapingThrowSkipsPage ==
    /\ \A i \in 1..Len(log) :
         EscapingThrow(log[i]) => LeavesOf(log[i].page) = {}
    /\ \A i \in 1..Len(log) :
         (log[i].raw \in {"sfcError", "badJson"} /\ Survives(log[i]))
         => LeavesOf(log[i].page) # {}
    /\ routes = Generated(SelectSeq(log, Survives))

\* A pass that returned after a page whose content load rejected, or whose
\* route.json failed to load, and a page handled after it.
C7_Witness ==
    /\ pc = "done"
    /\ Len(log) = 2
    /\ EscapingThrow(log[1])
    /\ Normalized[log[1].page].segments # <<>>
    /\ LeavesOf(log[2].page) # {}

(***************************************************************************)
(* C8. A failed extraction of the embedded block (malformed payload,       *)
(* parser error, missing content) gives an empty mapping and never raises: *)
(* the page yields its node, with meta, redirect, name and props from the  *)
(* defaults and the sibling file alone.                                    *)
(***************************************************************************)
AsPlain(entry) ==
    IF entry.raw \in BlockFailures
    THEN [page |-> entry.page, raw |-> "plain"]
    ELSE entry

C8_BlockFailureIsEmpty ==
    /\ \A i \in 1..Len(log) :
         (log[i].raw \in BlockFailures /\ Survives(log[i])) =>
            /\ LeavesOf(log[i].page) # {}
            /\ \A n \in LeavesOf(log[i].page) :
                 /\ n.meta = MetaByPrecedence(
                                 DefaultsOf(log[i].page),
                                 DeclaredMeta(ConsultedSibling(log[i].page)),
                                 EmptyObject)
                 /\ \A f \in {"redirect", "name", "props"} :
                      n[f] = FieldByPrecedence(
                                 ConsultedSibling(log[i].page), EmptyObject, f)
    /\ routes = Generated([i \in 1..Len(log) |-> AsPlain(log[i])])

\* A malformed payload on an index page whose sibling file was read.
C8_Witness ==
    \E i \in 1..Len(log) :
        /\ log[i].raw = "badJson"
        /\ \E n \in LeavesOf(log[i].page) :
               n.name = "sName" /\ n.meta.layout = "Custom"

(***************************************************************************)
(* C10. The tree has at most two levels in every state of the pass: the    *)
(* nodes of a children list are leaves with no children of their own, and  *)
(* a page with segments hangs under the top-level node at its parent path, *)
(* however deep its directories (a/b/c.vue under the top-level /a/b).      *)
(***************************************************************************)
C10_TwoLevels ==
    /\ \A r \in TopLevel :
         \A k \in 1..Len(ChildrenOf(r)) :
            IsLeaf(r.children[k]) /\ r.children[k].children = <<>>
    /\ \A i \in 1..Len(log) :
         Survives(log[i]) =>
            LET pagePath == log[i].page
                segs     == Normalized[pagePath].segments
            IN  IF segs = <<>>
                THEN \A n \in LeavesOf(pagePath) : n \in TopLevel
                ELSE /\ \E r \in TopLevel :
                          /\ r.path = ParentPathOf(segs)
                          /\ \E k \in 1..Len(ChildrenOf(r)) :
                               r.children[k].component.page = pagePath
                     /\ \A r \in TopLevel :
                          IsLeaf(r) => r.component.page # pagePath

\* /admin/users/:id under the top-level /admin/users, while the leaf
\* /admin/users sits in the children of /admin.
C10_Witness ==
    /\ \E r \in TopLevel :
          /\ r.path = "/admin/users"
          /\ IsSynthesizedParent(r)
          /\ \E k \in 1..Len(r.children) : r.children[k].path = "/admin/users/:id"
    /\ \E r \in TopLevel :
          /\ r.path = "/admin"
          /\ \E k \in 1..Len(r.children) : r.children[k].path = "/admin/users"

=============================================================================
